---------------------------- MODULE Spec2Model ----------------------------
(***************************************************************************)
(* A model of eks_versions.py: the version comparator compare_versions,    *)
(* the filter predicate check_version_filters and the region / cluster /   *)
(* node-group scan of get_all_eks_info.                                    *)
(*                                                                         *)
(* A Python string is a sequence of one-character strings, so that parsing *)
(* works on the characters.  Three specifications share the variables:     *)
(*   SpecCmp     Init draws two strings, the action applies                *)
(*               compare_versions;                                         *)
(*   SpecFilter  Init draws a control-plane version, a node-version set    *)
(*               and a filter, the action applies check_version_filters;   *)
(*   Spec        a run of get_all_eks_info, one action per external call.  *)
(***************************************************************************)
EXTENDS Integers, Sequences, FiniteSets, TLC

VARIABLES
    pc,                 \* control location of the specification being run
    v1, v2, cmpOut,     \* compare_versions: its arguments and its outcome
    cpv, nodeVersions, filters, admitOut,  \* check_version_filters: arguments, result
    specific_region, specific_cluster, version_filters,  \* get_all_eks_info: parameters
    regions, ri,        \* the region list and the index of the current region
    clusters, ci,       \* the current region's cluster list and index
    cluster,            \* describe_cluster's answer for the current cluster
    k8s_nodes,          \* get_cluster_nodes' answer for the current cluster
    cluster_info,       \* the record being assembled
    nodegroups, ni,     \* the current cluster's node-group names and index
    result,             \* the report: region -> sequence of cluster records
    unreachable,        \* environment: regions whose every call fails to connect
    fetched,            \* history: <<region, cluster>> pairs describe_cluster was called on
    failed,             \* history: <<region, cluster>> pairs with a failed fetch
    evals,              \* history: the evaluations of check_version_filters
    ngOk, ngFailed,     \* history: <<region, cluster, nodegroup>> describes, by outcome
    faults              \* environment: the failures injected so far

cmpVars    == <<v1, v2, cmpOut>>
filterVars == <<cpv, nodeVersions, filters, admitOut>>
infoVars   == <<specific_region, specific_cluster, version_filters, regions, ri,
                clusters, ci, cluster, k8s_nodes, cluster_info, nodegroups, ni,
                result, unreachable, fetched, failed, evals, ngOk, ngFailed,
                faults>>
vars       == <<pc, cmpVars, filterVars, infoVars>>

--------------------------------------------------------------------------
(* Bounds of the input spaces.                                            *)

MaxLen == 3
MaxComponents == 3
MaxFaults == 2

--------------------------------------------------------------------------
(* Strings.                                                               *)

Digits == {"0", "1", "2", "3", "4", "5", "6", "7", "8", "9"}

DigitVal(c) ==
    CASE c = "0" -> 0 [] c = "1" -> 1 [] c = "2" -> 2 [] c = "3" -> 3
      [] c = "4" -> 4 [] c = "5" -> 5 [] c = "6" -> 6 [] c = "7" -> 7
      [] c = "8" -> 8 [] c = "9" -> 9

\* str.split("."): the segments between the dots, empty ones included.
RECURSIVE SplitFrom(_, _, _)
SplitFrom(s, i, cur) ==
    IF i > Len(s) THEN <<cur>>
    ELSE IF s[i] = "." THEN <<cur>> \o SplitFrom(s, i + 1, <<>>)
    ELSE SplitFrom(s, i + 1, Append(cur, s[i]))

SplitDots(s) == SplitFrom(s, 1, <<>>)

\* int(segment) of a run of decimal digits; leading zeros are accepted.
RECURSIVE ToInt(_)
ToInt(seg) ==
    IF seg = <<>> THEN 0
    ELSE 10 * ToInt(SubSeq(seg, 1, Len(seg) - 1)) + DigitVal(seg[Len(seg)])

IsNumber(seg) == Len(seg) > 0 /\ \A i \in 1..Len(seg) : seg[i] \in Digits

\* The release form of packaging's VERSION_PATTERN, [0-9]+(\.[0-9]+)*.  The
\* strings of this model hold digits, dots and letters that start none of the
\* pattern's optional parts (epoch, pre, post, dev, local), so a string matches
\* the pattern exactly when it matches the release form.
MatchesVersionPattern(s) ==
    LET segs == SplitDots(s) IN \A k \in 1..Len(segs) : IsNumber(segs[k])

\* packaging.version.parse: the release tuple, or InvalidVersion raised.
VersionParse(s) ==
    IF MatchesVersionPattern(s)
    THEN [exc |-> "none",
          release |-> [k \in 1..Len(SplitDots(s)) |-> ToInt(SplitDots(s)[k])]]
    ELSE [exc |-> "InvalidVersion", release |-> <<>>]

\* Version._key for a release-only version: the release without its trailing
\* zeros (the other parts of the key are equal for all such versions).
RECURSIVE StripTrailingZeros(_)
StripTrailingZeros(rel) ==
    IF rel = <<>> THEN <<>>
    ELSE IF rel[Len(rel)] = 0 THEN StripTrailingZeros(SubSeq(rel, 1, Len(rel) - 1))
    ELSE rel

\* A comparator that looks at major.minor only.
VersionKeyMajorMinor(rel) ==
    LET k == StripTrailingZeros(rel) IN
    IF Len(k) > 2 THEN SubSeq(k, 1, 2) ELSE k

VersionKey(rel) == StripTrailingZeros(rel)

\* Python's tuple order: the first differing element decides, else the
\* shorter tuple is the smaller.
RECURSIVE TupleLess(_, _)
TupleLess(a, b) ==
    IF a = <<>> THEN b # <<>>
    ELSE IF b = <<>> THEN FALSE
    ELSE IF a[1] # b[1] THEN a[1] < b[1]
    ELSE TupleLess(Tail(a), Tail(b))

VersionLess(rel1, rel2) == TupleLess(VersionKey(rel1), VersionKey(rel2))

BoolInt(b) == IF b THEN 1 ELSE 0

\* The try block of compare_versions without its except clause.
CompareNoCatch(a, b) ==
    LET p1 == VersionParse(a)
        p2 == VersionParse(b)
    IN  IF p1.exc # "none" \/ p2.exc # "none"
        THEN [exc |-> "InvalidVersion", val |-> 0]
        ELSE [exc |-> "none",
              val |-> BoolInt(VersionLess(p2.release, p1.release))
                      - BoolInt(VersionLess(p1.release, p2.release))]

\* compare_versions as a call: the exception that leaves it ("none" when it
\* returns) and the value returned.
CompareCall(a, b) ==
    LET p1 == VersionParse(a)
        p2 == VersionParse(b)
    IN  IF p1.exc = "InvalidVersion" THEN [exc |-> "none", val |-> 0]
        ELSE IF p2.exc = "InvalidVersion" THEN [exc |-> "none", val |-> 0]
        ELSE [exc |-> "none",
              val |-> BoolInt(VersionLess(p2.release, p1.release))
                      - BoolInt(VersionLess(p1.release, p2.release))]

compare_versions(a, b) == CompareCall(a, b).val

--------------------------------------------------------------------------
(* Inputs of compare_versions.                                            *)

Alphabet == {"0", "1", ".", "x"}

AllStrings == UNION {[1..k -> Alphabet] : k \in 0..MaxLen}

ComponentTexts == {<<"0">>, <<"2">>, <<"1", "0">>}

RECURSIVE JoinDots(_)
JoinDots(parts) ==
    IF Len(parts) = 1 THEN parts[1]
    ELSE parts[1] \o <<".">> \o JoinDots(Tail(parts))

DottedVersions ==
    {JoinDots(t) : t \in UNION {[1..k -> ComponentTexts] : k \in 1..MaxComponents}}

S_1_26   == <<"1", ".", "2", "6">>
S_1_27   == <<"1", ".", "2", "7">>
S_1_28   == <<"1", ".", "2", "8">>
S_1_27_0 == <<"1", ".", "2", "7", ".", "0">>
S_1_27_1 == <<"1", ".", "2", "7", ".", "1">>
S_invalid  == <<"i", "n", "v", "a", "l", "i", "d">>
S_invalid1 == <<"i", "n", "v", "a", "l", "i", "d", "1">>
S_invalid2 == <<"i", "n", "v", "a", "l", "i", "d", "2">>
S_1_x    == <<"1", ".", "x">>

TestStrings ==
    {S_1_26, S_1_27, S_1_27_0, S_1_27_1, S_invalid, S_invalid1, S_invalid2}

CompareInputs == AllStrings \cup DottedVersions \cup TestStrings

--------------------------------------------------------------------------
(* Idle values of the variables a specification does not use.             *)

NoFilter == [isNone |-> TRUE, keys |-> {}, exact |-> <<>>, min |-> <<>>,
             max |-> <<>>, outdated |-> FALSE]
NoCluster == [version |-> <<>>]
NoInfo == [name |-> "", version |-> <<>>, nodes |-> <<>>, pods |-> <<>>,
           managed_nodegroups |-> <<>>]

CmpIdle == /\ v1 = <<>> /\ v2 = <<>> /\ cmpOut = [exc |-> "none", val |-> 0]

FilterIdle ==
    /\ cpv = <<>> /\ nodeVersions = {} /\ filters = NoFilter /\ admitOut = FALSE

InfoIdle ==
    /\ specific_region = "" /\ specific_cluster = "" /\ version_filters = NoFilter
    /\ regions = <<>> /\ ri = 0 /\ clusters = <<>> /\ ci = 0
    /\ cluster = NoCluster /\ k8s_nodes = <<>> /\ cluster_info = NoInfo
    /\ nodegroups = <<>> /\ ni = 0 /\ result = <<>>
    /\ unreachable = {} /\ fetched = {} /\ failed = {} /\ evals = {}
    /\ ngOk = {} /\ ngFailed = {} /\ faults = 0

--------------------------------------------------------------------------
(* SpecCmp: compare_versions on every pair of inputs.                     *)

InitCmp ==
    /\ pc = "cmp_call"
    /\ v1 \in CompareInputs
    /\ v2 \in CompareInputs
    /\ cmpOut = [exc |-> "none", val |-> 0]
    /\ FilterIdle
    /\ InfoIdle

CompareVersions ==
    /\ pc = "cmp_call"
    /\ cmpOut' = CompareCall(v1, v2)
    /\ pc' = "cmp_done"
    /\ UNCHANGED <<v1, v2, filterVars, infoVars>>

NextCmp == CompareVersions

SpecCmp == InitCmp /\ [][NextCmp]_vars


\* The numeric component-by-component order of two release tuples, a missing
\* component counting as 0: -1, 0 or 1.
Component(rel, k) == IF k <= Len(rel) THEN rel[k] ELSE 0

ComponentOrder(a, b) ==
    LET n == IF Len(a) > Len(b) THEN Len(a) ELSE Len(b)
        diff == {k \in 1..n : Component(a, k) # Component(b, k)}
    IN  IF diff = {} THEN 0
        ELSE LET k == CHOOSE x \in diff : \A y \in diff : x <= y
             IN  IF Component(a, k) < Component(b, k) THEN -1 ELSE 1

WellFormed(s) == VersionParse(s).exc = "none"

\* C3: compare_versions never signals an error: whenever its first argument,
\* its second argument or both fail to parse as a version, it returns 0.
C3_InvalidComparesEqual ==
    (pc = "cmp_done" /\ (~WellFormed(v1) \/ ~WellFormed(v2)))
        => (cmpOut.exc = "none" /\ cmpOut.val = 0)

C3_Witness ==
    /\ pc = "cmp_done"
    /\ v1 = S_1_27
    /\ v2 = S_invalid
    /\ cmpOut = [exc |-> "none", val |-> 0]

\* C4: for well-formed dotted versions compare_versions returns the numeric
\* component-by-component order over all components, the patch level
\* included (-1 before, 1 after, 0 equal), and its result is always one of
\* -1, 0, 1.
C4_ComponentOrder ==
    pc = "cmp_done" =>
        /\ cmpOut.val \in {-1, 0, 1}
        /\ (WellFormed(v1) /\ WellFormed(v2)) =>
              /\ cmpOut.exc = "none"
              /\ cmpOut.val = ComponentOrder(VersionParse(v1).release,
                                             VersionParse(v2).release)
        /\ (v1 = S_1_27_1 /\ v2 = S_1_27_0) => cmpOut.val = 1
        /\ (v1 = S_1_27_0 /\ v2 = S_1_27_1) => cmpOut.val = -1
        /\ (v1 = S_1_26 /\ v2 = S_1_27) => cmpOut.val = -1
        /\ (v1 = S_1_27 /\ v2 = S_1_26) => cmpOut.val = 1
        /\ (v1 = S_1_26 /\ v2 = S_1_26) => cmpOut.val = 0

C4_Witness ==
    /\ pc = "cmp_done"
    /\ v1 = S_1_27_1
    /\ v2 = S_1_27_0
    /\ cmpOut = [exc |-> "none", val |-> 1]

--------------------------------------------------------------------------
(* check_version_filters.                                                 *)
(*                                                                        *)
(* A filter is the dict version_filters, or None: keys is the set of its  *)
(* keys, and a field whose key is absent holds "" (False for outdated).   *)

FilterKeys == {"exact", "min", "max", "outdated"}

\* version_filters.get(k) is truthy: the key is present with a non-empty value.
HasExact(f)    == ~f.isNone /\ "exact" \in f.keys /\ f.exact # <<>>
HasMin(f)      == ~f.isNone /\ "min" \in f.keys /\ f.min # <<>>
HasMax(f)      == ~f.isNone /\ "max" \in f.keys /\ f.max # <<>>
HasOutdated(f) == ~f.isNone /\ "outdated" \in f.keys /\ f.outdated

\* not version_filters: None or the empty dict.
FilterEmpty(f) == f.isNone \/ f.keys = {}

\* An exact clause that compares the versions instead of the strings.
ExactRejectsByOrder(cp, f) == HasExact(f) /\ compare_versions(cp, f.exact) # 0

ExactRejects(cp, f) == HasExact(f) /\ cp # f.exact

\* A minimum that excludes the bound itself.
MinRejectsAtBound(cp, f) == HasMin(f) /\ compare_versions(cp, f.min) <= 0

MinRejects(cp, f) == HasMin(f) /\ compare_versions(cp, f.min) < 0

MaxRejects(cp, f) == HasMax(f) /\ compare_versions(cp, f.max) > 0

\* A skew detector that reports skew whenever there are nodes.
OutdatedResultAnyNode(cp, nv) == Cardinality(nv) >= 1

OutdatedResult(cp, nv) ==
    IF Cardinality(nv) > 1 THEN TRUE
    ELSE IF nv # {} /\ compare_versions(CHOOSE x \in nv : TRUE, cp) # 0 THEN TRUE
    ELSE FALSE

\* A filter whose outdated clause is looked at first and admits on its own.
CheckOutdatedFirst(cp, nv, f) ==
    IF FilterEmpty(f) THEN TRUE
    ELSE IF HasOutdated(f) /\ OutdatedResult(cp, nv) THEN TRUE
    ELSE IF ExactRejects(cp, f) THEN FALSE
    ELSE IF MinRejects(cp, f) THEN FALSE
    ELSE IF MaxRejects(cp, f) THEN FALSE
    ELSE IF HasOutdated(f) THEN FALSE
    ELSE TRUE

check_version_filters(cp, nv, f) ==
    IF FilterEmpty(f) THEN TRUE
    ELSE IF ExactRejects(cp, f) THEN FALSE
    ELSE IF MinRejects(cp, f) THEN FALSE
    ELSE IF MaxRejects(cp, f) THEN FALSE
    ELSE IF HasOutdated(f) THEN OutdatedResult(cp, nv)
    ELSE TRUE

--------------------------------------------------------------------------
(* SpecFilter: check_version_filters on every input.                      *)

FilterVersions == {S_1_26, S_1_27, S_1_27_0, S_1_x}

ControlPlaneVersions == FilterVersions \cup {S_1_28}

FilterSpace ==
    {NoFilter} \cup
    {[isNone |-> FALSE, keys |-> K, exact |-> e, min |-> lo, max |-> hi,
      outdated |-> o] :
        K \in SUBSET FilterKeys,
        e \in FilterVersions \cup {<<>>}, lo \in FilterVersions \cup {<<>>},
        hi \in FilterVersions \cup {<<>>}, o \in BOOLEAN}

\* A key that is absent carries the default value of its field.
Canonical(f) ==
    /\ "exact" \notin f.keys => f.exact = <<>>
    /\ "min" \notin f.keys => f.min = <<>>
    /\ "max" \notin f.keys => f.max = <<>>
    /\ "outdated" \notin f.keys => f.outdated = FALSE

InitFilter ==
    /\ pc = "filter_call"
    /\ cpv \in ControlPlaneVersions
    /\ nodeVersions \in SUBSET FilterVersions
    /\ filters \in {f \in FilterSpace : Canonical(f)}
    /\ admitOut = FALSE
    /\ CmpIdle
    /\ InfoIdle

CheckVersionFilters ==
    /\ pc = "filter_call"
    /\ admitOut' = check_version_filters(cpv, nodeVersions, filters)
    /\ pc' = "filter_done"
    /\ UNCHANGED <<cpv, nodeVersions, filters, cmpVars, infoVars>>

NextFilter == CheckVersionFilters

SpecFilter == InitFilter /\ [][NextFilter]_vars

\* The clauses of a filter that are set, and the filter with one of them only.
SetClauses(f) ==
    {k \in FilterKeys :
        \/ k = "exact" /\ HasExact(f)
        \/ k = "min" /\ HasMin(f)
        \/ k = "max" /\ HasMax(f)
        \/ k = "outdated" /\ HasOutdated(f)}

OnlyClause(f, k) == [f EXCEPT !.keys = f.keys \cap {k}]

\* C1: the filter admits exactly when every clause that is set admits when it
\* is evaluated on its own against the same control-plane version and the same
\* node-version set; with outdated set, a cluster that fails exact, min or max
\* is not admitted, and a filter with no clause set admits.
C1_FilterIsConjunction ==
    pc = "filter_done" =>
        /\ admitOut = (\A k \in SetClauses(filters) :
                          check_version_filters(cpv, nodeVersions,
                                                OnlyClause(filters, k)))
        /\ (HasOutdated(filters) /\ admitOut) =>
              \A k \in SetClauses(filters) \ {"outdated"} :
                  check_version_filters(cpv, nodeVersions, OnlyClause(filters, k))
        /\ SetClauses(filters) = {} => admitOut

C1_Witness ==
    /\ pc = "filter_done"
    /\ SetClauses(filters) = {"min", "outdated"}
    /\ filters.min = S_1_27
    /\ cpv = S_1_26
    /\ nodeVersions = {S_1_26, S_1_27}
    /\ ~admitOut

\* C2: with only outdated set, the filter admits exactly when the node-version
\* set has more than one entry, or has exactly one entry that compare_versions
\* does not report equal to the control-plane version.
C2_OutdatedIsSkew ==
    (pc = "filter_done" /\ SetClauses(filters) = {"outdated"}) =>
        admitOut =
            (\/ Cardinality(nodeVersions) > 1
             \/ /\ Cardinality(nodeVersions) = 1
                /\ \A x \in nodeVersions : compare_versions(x, cpv) # 0)

C2_Witness ==
    /\ pc = "filter_done"
    /\ SetClauses(filters) = {"outdated"}
    /\ nodeVersions = {S_1_27_0}
    /\ cpv = S_1_27
    /\ ~admitOut

\* C9 as stated: with exact set, a control-plane version that is textually
\* identical to exact or that compare_versions reports equal to it passes the
\* exact clause, and every other control-plane version is rejected.
C9_ExactTextualOrSemantic ==
    (pc = "filter_done" /\ HasExact(filters)) =>
        LET equal == \/ cpv = filters.exact
                     \/ compare_versions(cpv, filters.exact) = 0
        IN  /\ admitOut => equal
            /\ (/\ SetClauses(filters) = {"exact"}
                /\ WellFormed(cpv) /\ WellFormed(filters.exact)
                /\ equal) => admitOut

\* C9 amended: with exact set, the exact clause passes exactly when the
\* control-plane version is the same string as exact; any other control-plane
\* version is rejected whatever the node versions and the other clauses are.
C9_ExactIsTextual ==
    (pc = "filter_done" /\ HasExact(filters)) =>
        /\ admitOut => cpv = filters.exact
        /\ SetClauses(filters) = {"exact"} => (admitOut = (cpv = filters.exact))

C9_Witness ==
    /\ pc = "filter_done"
    /\ SetClauses(filters) = {"exact"}
    /\ filters.exact = S_1_27
    /\ cpv = S_1_27_0
    /\ compare_versions(cpv, filters.exact) = 0
    /\ ~admitOut

\* C10: a set min rejects unless compare_versions(control plane, min) >= 0, a
\* set max rejects unless compare_versions(control plane, max) <= 0, and with
\* only min and/or max set the filter admits exactly when the set bounds hold,
\* whatever the node-version set is.
C10_MinMaxBounds ==
    pc = "filter_done" =>
        /\ (HasMin(filters) /\ compare_versions(cpv, filters.min) < 0) => ~admitOut
        /\ (HasMax(filters) /\ compare_versions(cpv, filters.max) > 0) => ~admitOut
        /\ (SetClauses(filters) # {} /\ SetClauses(filters) \subseteq {"min", "max"}) =>
              admitOut =
                  (/\ HasMin(filters) => compare_versions(cpv, filters.min) >= 0
                   /\ HasMax(filters) => compare_versions(cpv, filters.max) <= 0)

C10_Witness ==
    /\ pc = "filter_done"
    /\ SetClauses(filters) = {"min", "max"}
    /\ filters.min = S_1_27
    /\ filters.max = S_1_27
    /\ cpv = S_1_27_0
    /\ nodeVersions = {S_1_26, S_1_x}
    /\ admitOut

--------------------------------------------------------------------------
(* get_all_eks_info.                                                      *)
(*                                                                        *)
(* The account the scan runs against: what describe_regions,              *)
(* list_clusters, describe_cluster, kubectl and list_nodegroups answer    *)
(* when they succeed.  Every call may instead fail with one of the        *)
(* exceptions the code names for it.  A record keeps the fields the       *)
(* filter and the report's structure depend on (names and versions).      *)

RegionNames == <<"us-east-1", "us-west-2", "eu-west-1">>

ClustersOf(r) ==
    CASE r = "us-east-1" -> <<"prod", "stage", "dev">>
      [] r = "us-west-2" -> <<"edge">>
      [] r = "eu-west-1" -> <<"lab">>
      [] OTHER -> <<>>

Node(n, v) == [name |-> n, k8s_version |-> v]

Account(c) ==
    CASE c = "prod" ->
            [version |-> S_1_27,
             nodes |-> <<Node("n1", S_1_27), Node("n2", S_1_27)>>,
             pods |-> <<"p1">>, nodegroups |-> <<"ng-a", "ng-b">>]
      [] c = "stage" ->
            [version |-> S_1_27,
             nodes |-> <<Node("n3", S_1_26)>>,
             pods |-> <<>>, nodegroups |-> <<"ng-c">>]
      [] c = "dev" ->
            [version |-> S_1_26,
             nodes |-> <<Node("n4", S_1_26), Node("n5", S_1_27)>>,
             pods |-> <<>>, nodegroups |-> <<>>]
      [] c = "edge" ->
            [version |-> S_1_28,
             nodes |-> <<>>,
             pods |-> <<"p2">>, nodegroups |-> <<>>]
      [] c = "lab" ->
            [version |-> S_1_26,
             nodes |-> <<Node("n6", S_1_x)>>,
             pods |-> <<>>, nodegroups |-> <<"ng-d">>]

Exists(r, c) == \E k \in 1..Len(ClustersOf(r)) : ClustersOf(r)[k] = c

DictFilter(K, e, lo, hi, o) ==
    [isNone |-> FALSE, keys |-> K, exact |-> e, min |-> lo, max |-> hi,
     outdated |-> o]

\* The filters main() can build from its flags, and the default None.
InfoFilters ==
    {NoFilter,
     DictFilter({}, <<>>, <<>>, <<>>, FALSE),
     DictFilter({"min"}, <<>>, S_1_27, <<>>, FALSE),
     DictFilter({"exact"}, S_1_27, <<>>, <<>>, FALSE),
     DictFilter({"outdated"}, <<>>, <<>>, <<>>, TRUE),
     DictFilter({"max", "outdated"}, <<>>, <<>>, S_1_27, TRUE)}

\* The exceptions an EKS or EC2 client call raises.
ClientErrors == {"ClientError", "EndpointConnectionError"}

\* The environment injects at most MaxFaults failures into a run, on top of
\* the failures an unreachable region or a missing cluster forces.
Injected(set) == IF faults < MaxFaults THEN set ELSE {}

\* The outcomes of a client call in region r: "ok" or an exception.  In an
\* unreachable region every call fails to connect; a call that names a
\* cluster the region does not have is refused (a ClientError).
CallOutcomes(r, exists) ==
    IF r \in unreachable THEN {"EndpointConnectionError"}
    ELSE IF ~exists THEN {"ClientError"} \cup Injected({"EndpointConnectionError"})
    ELSE {"ok"} \cup Injected(ClientErrors)

Forced(r, exists, o) == r \in unreachable \/ (~exists /\ o = "ClientError")

\* The failures counted after a client call in region r ended with o.
Count(r, exists, o) ==
    IF o = "ok" \/ Forced(r, exists, o) THEN faults ELSE faults + 1

\* The outcomes of get_cluster_nodes and get_fargate_pods: the kubectl
\* output, or [] after a CalledProcessError.
KubectlOutcomes == {"ok"} \cup Injected({"CalledProcessError"})

\* The except clauses, innermost first: lines 199, 203, 208, 212-216.
NodegroupHandlerCatches(e)  == e = "ClientError"
NodegroupsHandlerCatches(e) == e = "ClientError"
ClusterHandlerCatches(e)    == e = "ClientError"
RegionHandlerCatches(e)     == e \in {"EndpointConnectionError", "ClientError"}

Levels == <<"nodegroup", "nodegroups", "cluster", "region">>
Depth(level) == CHOOSE k \in 1..4 : Levels[k] = level

\* A scan whose region handler has no clause for a connection failure.
ResumeNoConnectClause(e, level) ==
    IF Depth(level) <= 1 /\ NodegroupHandlerCatches(e) THEN "ng_loop"
    ELSE IF Depth(level) <= 2 /\ NodegroupsHandlerCatches(e) THEN "append"
    ELSE IF Depth(level) <= 3 /\ ClusterHandlerCatches(e) THEN "cluster_loop"
    ELSE IF e = "ClientError" THEN "region_loop"
    ELSE "raised"

\* Where control resumes after exception e is raised inside the try block
\* of `level`: after the innermost enclosing handler that catches it.
Resume(e, level) ==
    IF Depth(level) <= 1 /\ NodegroupHandlerCatches(e) THEN "ng_loop"
    ELSE IF Depth(level) <= 2 /\ NodegroupsHandlerCatches(e) THEN "append"
    ELSE IF Depth(level) <= 3 /\ ClusterHandlerCatches(e) THEN "cluster_loop"
    ELSE IF RegionHandlerCatches(e) THEN "region_loop"
    ELSE "raised"

\* A scan that never skips a cluster.
FilterPassesAlways(cp, nv, f) == TRUE

\* Line 125: the filter on the observed versions.
FilterPasses(cp, nv, f) == check_version_filters(cp, nv, f)

\* Line 122: the set of kubelet versions of the nodes.
NodeVersionsOf(nodes) == {nodes[j].k8s_version : j \in 1..Len(nodes)}

Region == regions[ri]
ClusterName == clusters[ci]
Failure(call, e) == [region |-> Region, name |-> ClusterName, call |-> call, exc |-> e]

Init ==
    /\ pc = "get_regions"
    /\ specific_region \in {""} \cup {RegionNames[k] : k \in 1..Len(RegionNames)}
    /\ specific_cluster \in {"", "prod"}
    /\ specific_cluster # "" => specific_region # ""
    /\ version_filters \in InfoFilters
    /\ unreachable \in SUBSET {RegionNames[k] : k \in 1..Len(RegionNames)}
    /\ regions = <<>> /\ ri = 0 /\ clusters = <<>> /\ ci = 0
    /\ cluster = NoCluster /\ k8s_nodes = <<>> /\ cluster_info = NoInfo
    /\ nodegroups = <<>> /\ ni = 0 /\ result = <<>>
    /\ fetched = {} /\ failed = {} /\ evals = {} /\ ngOk = {} /\ ngFailed = {}
    /\ faults = 0
    /\ CmpIdle
    /\ FilterIdle

history == <<fetched, failed, evals, ngOk, ngFailed>>
quiet   == <<history, faults>>
params  == <<specific_region, specific_cluster, version_filters, unreachable>>

\* Lines 93-103: the region list.
GetRegions ==
    /\ pc = "get_regions"
    /\ \/ /\ specific_region # ""
          /\ regions' = <<specific_region>>
          /\ faults' = faults
          /\ pc' = "region_loop"
       \/ /\ specific_region = ""
          /\ \E o \in {"ok"} \cup Injected(ClientErrors) :
                /\ regions' = IF o = "ok" THEN RegionNames ELSE <<>>
                /\ faults' = IF o = "ok" THEN faults ELSE faults + 1
                /\ pc' = IF o = "ok" THEN "region_loop"
                         ELSE IF o = "ClientError" THEN "returned"
                         ELSE "raised"
    /\ UNCHANGED <<ri, clusters, ci, cluster, k8s_nodes, cluster_info, nodegroups,
                   ni, result, history, params, cmpVars, filterVars>>

\* Lines 104-113: the next region gets its empty entry, then its cluster list.
StartRegion ==
    /\ pc = "region_loop"
    /\ ri < Len(regions)
    /\ ri' = ri + 1
    /\ result' = (regions[ri + 1] :> <<>>) @@ result
    /\ ci' = 0
    /\ \/ /\ specific_cluster # ""
          /\ clusters' = <<specific_cluster>>
          /\ faults' = faults
          /\ pc' = "cluster_loop"
       \/ /\ specific_cluster = ""
          /\ \E o \in CallOutcomes(regions[ri + 1], TRUE) :
                /\ clusters' = IF o = "ok" THEN ClustersOf(regions[ri + 1]) ELSE <<>>
                /\ faults' = Count(regions[ri + 1], TRUE, o)
                /\ pc' = IF o = "ok" THEN "cluster_loop" ELSE Resume(o, "region")
    /\ UNCHANGED <<regions, cluster, k8s_nodes, cluster_info, nodegroups, ni,
                   history, params, cmpVars, filterVars>>

\* Line 218: the loop over the regions is over.
Return ==
    /\ pc = "region_loop"
    /\ ri = Len(regions)
    /\ pc' = "returned"
    /\ UNCHANGED <<regions, ri, clusters, ci, cluster, k8s_nodes, cluster_info,
                   nodegroups, ni, result, quiet, params, cmpVars, filterVars>>

\* Lines 115-118: the next cluster is described.
DescribeCluster ==
    /\ pc = "cluster_loop"
    /\ ci < Len(clusters)
    /\ ci' = ci + 1
    /\ fetched' = fetched \cup {<<Region, clusters[ci + 1]>>}
    /\ \E o \in CallOutcomes(Region, Exists(Region, clusters[ci + 1])) :
          /\ cluster' = IF o = "ok" THEN [version |-> Account(clusters[ci + 1]).version]
                        ELSE cluster
          /\ failed' = IF o = "ok" THEN failed
                       ELSE failed \cup {[region |-> Region, name |-> clusters[ci + 1],
                                          call |-> "describe_cluster", exc |-> o]}
          /\ faults' = Count(Region, Exists(Region, clusters[ci + 1]), o)
          /\ pc' = IF o = "ok" THEN "get_nodes" ELSE Resume(o, "cluster")
    /\ UNCHANGED <<regions, ri, clusters, k8s_nodes, cluster_info, nodegroups, ni,
                   result, evals, ngOk, ngFailed, params, cmpVars, filterVars>>

\* The loop over the clusters of the region is over.
EndClusters ==
    /\ pc = "cluster_loop"
    /\ ci = Len(clusters)
    /\ pc' = "region_loop"
    /\ UNCHANGED <<regions, ri, clusters, ci, cluster, k8s_nodes, cluster_info,
                   nodegroups, ni, result, quiet, params, cmpVars, filterVars>>

\* Lines 121-126: the nodes, their versions, the filter.
GetClusterNodes ==
    /\ pc = "get_nodes"
    /\ \E o \in KubectlOutcomes :
          LET nodes == IF o = "ok" THEN Account(ClusterName).nodes ELSE <<>>
              node_versions == NodeVersionsOf(nodes)
              admit == FilterPasses(cluster.version, node_versions, version_filters)
          IN  /\ k8s_nodes' = nodes
              /\ failed' = IF o = "ok" THEN failed
                           ELSE failed \cup {Failure("get_cluster_nodes", o)}
              /\ evals' = evals \cup {[region |-> Region, name |-> ClusterName,
                                       cp |-> cluster.version, nv |-> node_versions,
                                       admit |-> admit]}
              /\ faults' = IF o = "ok" THEN faults ELSE faults + 1
              /\ pc' = IF admit THEN "get_pods" ELSE "cluster_loop"
    /\ UNCHANGED <<regions, ri, clusters, ci, cluster, cluster_info, nodegroups, ni,
                   result, fetched, ngOk, ngFailed, params, cmpVars, filterVars>>

\* Lines 129-169: the Fargate pods, and the record without its node groups.
GetFargatePods ==
    /\ pc = "get_pods"
    /\ \E o \in KubectlOutcomes :
          /\ cluster_info' =
                [name |-> ClusterName,
                 version |-> cluster.version,
                 nodes |-> k8s_nodes,
                 pods |-> IF o = "ok" THEN Account(ClusterName).pods ELSE <<>>,
                 managed_nodegroups |-> <<>>]
          /\ failed' = IF o = "ok" THEN failed
                       ELSE failed \cup {Failure("get_fargate_pods", o)}
          /\ faults' = IF o = "ok" THEN faults ELSE faults + 1
    /\ pc' = "list_nodegroups"
    /\ UNCHANGED <<regions, ri, clusters, ci, cluster, k8s_nodes, nodegroups, ni,
                   result, fetched, evals, ngOk, ngFailed, params, cmpVars, filterVars>>

\* Lines 173-176: the names of the node groups.
ListNodegroups ==
    /\ pc = "list_nodegroups"
    /\ \E o \in CallOutcomes(Region, TRUE) :
          /\ nodegroups' = IF o = "ok" THEN Account(ClusterName).nodegroups ELSE <<>>
          /\ failed' = IF o = "ok" THEN failed
                       ELSE failed \cup {Failure("list_nodegroups", o)}
          /\ faults' = Count(Region, TRUE, o)
          /\ pc' = IF o = "ok" THEN "ng_loop" ELSE Resume(o, "nodegroups")
    /\ ni' = 0
    /\ UNCHANGED <<regions, ri, clusters, ci, cluster, k8s_nodes, cluster_info,
                   result, fetched, evals, ngOk, ngFailed, params, cmpVars, filterVars>>

\* Lines 176-201: the next node group is described and added to the record.
DescribeNodegroup ==
    /\ pc = "ng_loop"
    /\ ni < Len(nodegroups)
    /\ ni' = ni + 1
    /\ \E o \in CallOutcomes(Region, TRUE) :
          LET ng_name == nodegroups[ni + 1] IN
          /\ cluster_info' =
                IF o = "ok"
                THEN [cluster_info EXCEPT
                        !.managed_nodegroups = Append(@, ng_name)]
                ELSE cluster_info
          /\ ngOk' = IF o = "ok" THEN ngOk \cup {<<Region, ClusterName, ng_name>>}
                     ELSE ngOk
          /\ ngFailed' = IF o = "ok" THEN ngFailed
                         ELSE ngFailed \cup {<<Region, ClusterName, ng_name, o>>}
          /\ failed' = IF o = "ok" THEN failed
                       ELSE failed \cup {Failure("describe_nodegroup", o)}
          /\ faults' = Count(Region, TRUE, o)
          /\ pc' = IF o = "ok" THEN "ng_loop" ELSE Resume(o, "nodegroup")
    /\ UNCHANGED <<regions, ri, clusters, ci, cluster, k8s_nodes, nodegroups,
                   result, fetched, evals, params, cmpVars, filterVars>>

\* The loop over the node groups of the cluster is over.
EndNodegroups ==
    /\ pc = "ng_loop"
    /\ ni = Len(nodegroups)
    /\ pc' = "append"
    /\ UNCHANGED <<regions, ri, clusters, ci, cluster, k8s_nodes, cluster_info,
                   nodegroups, ni, result, quiet, params, cmpVars, filterVars>>

\* Line 206: the record joins the report.
AppendCluster ==
    /\ pc = "append"
    /\ result' = [result EXCEPT ![Region] = Append(@, cluster_info)]
    /\ pc' = "cluster_loop"
    /\ UNCHANGED <<regions, ri, clusters, ci, cluster, k8s_nodes, cluster_info,
                   nodegroups, ni, quiet, params, cmpVars, filterVars>>

Next ==
    \/ GetRegions
    \/ StartRegion
    \/ Return
    \/ DescribeCluster
    \/ EndClusters
    \/ GetClusterNodes
    \/ GetFargatePods
    \/ ListNodegroups
    \/ DescribeNodegroup
    \/ EndNodegroups
    \/ AppendCluster

Spec == Init /\ [][Next]_vars

--------------------------------------------------------------------------
(* Properties of get_all_eks_info.                                        *)

\* The cluster list the scan walks in region r once it has one.
ListFor(r) == IF specific_cluster # "" THEN <<specific_cluster>> ELSE ClustersOf(r)

ReportedNames(r) == {result[r][i].name : i \in 1..Len(result[r])}

Admitted(r, c) == \E e \in evals : e.region = r /\ e.name = c /\ e.admit

FailedOn(r, c) == \E f \in failed : f.region = r /\ f.name = c

\* What the filter answers on the account's own data for cluster c of region r.
AdmitsInAccount(r, c) ==
    /\ Exists(r, c)
    /\ check_version_filters(Account(c).version,
                             NodeVersionsOf(Account(c).nodes), version_filters)

\* C5: a failure while fetching one cluster (describing it, listing its
\* nodes, pods or node groups, or describing a node group) never prevents the
\* processing of its siblings: every later cluster of the region's list is
\* still fetched and, if it passes the filter, is in the report.
C5_SiblingsStillFetched ==
    pc = "returned" =>
        \A f \in failed :
            f.region \notin unreachable =>
                LET L == ListFor(f.region) IN
                \A i, j \in 1..Len(L) :
                    (L[i] = f.name /\ i < j) =>
                        /\ <<f.region, L[j]>> \in fetched
                        /\ (Admitted(f.region, L[j]) /\ ~FailedOn(f.region, L[j]))
                              => L[j] \in ReportedNames(f.region)

\* C6: when describing one node group of an admitted cluster fails, the
\* cluster's record is still in the report, its managed_nodegroups omits
\* exactly the failed node group and holds every node group of the cluster
\* whose describe succeeded.
C6_FailedNodegroupOnlyOmitted ==
    pc = "returned" =>
        \A g \in ngFailed :
            \E i \in 1..Len(result[g[1]]) :
                LET rec == result[g[1]][i]
                    listed == {rec.managed_nodegroups[k] :
                                  k \in 1..Len(rec.managed_nodegroups)}
                    all == Account(g[2]).nodegroups
                IN  /\ rec.name = g[2]
                    /\ g[3] \notin listed
                    /\ listed = {all[k] : k \in 1..Len(all)}
                                  \ {h[3] : h \in {h \in ngFailed :
                                                     h[1] = g[1] /\ h[2] = g[2]}}

\* C7: a region that cannot be reached does not end the run: it is reported
\* with an empty cluster list, every region of the list has its entry, and
\* when nothing else fails every other region, earlier or later, is reported
\* with exactly the clusters of its list that the filter admits, in order.
C7_UnreachableRegionEmpty ==
    /\ pc = "raised" => ri = 0
    /\ pc = "returned" =>
          \A k \in 1..Len(regions) :
              LET r == regions[k]
                  Keep(c) == AdmitsInAccount(r, c)
              IN  /\ r \in DOMAIN result
                  /\ r \in unreachable => result[r] = <<>>
                  /\ (r \notin unreachable /\ faults = 0) =>
                        [i \in 1..Len(result[r]) |-> result[r][i].name]
                            = SelectSeq(ListFor(r), Keep)

C7_Witness ==
    /\ pc = "returned"
    /\ regions = RegionNames
    /\ unreachable = {"us-west-2"}
    /\ result["us-west-2"] = <<>>
    /\ ReportedNames("us-east-1") = {"prod", "stage"}
    /\ ReportedNames("eu-west-1") = {"lab"}

\* C8: at every point of a run, every record in the report passed the filter,
\* on the control-plane version the record holds and on the set of the
\* k8s_version values of the record's nodes; a cluster the filter rejected is
\* never in the report.
C8_ReportAgreesWithFilter ==
    /\ \A r \in DOMAIN result :
          \A i \in 1..Len(result[r]) :
              LET rec == result[r][i]
                  nv == NodeVersionsOf(rec.nodes)
              IN  /\ check_version_filters(rec.version, nv, version_filters)
                  /\ \E e \in evals :
                        /\ e.region = r /\ e.name = rec.name
                        /\ e.cp = rec.version /\ e.nv = nv
                        /\ e.admit
    /\ \A e \in evals :
          ~check_version_filters(e.cp, e.nv, version_filters) =>
              (e.region \in DOMAIN result => e.name \notin ReportedNames(e.region))

C8_Witness ==
    /\ pc = "returned"
    /\ SetClauses(version_filters) = {"outdated"}
    /\ "us-east-1" \in DOMAIN result
    /\ ReportedNames("us-east-1") = {"stage", "dev"}
    /\ \E e \in evals : e.name = "prod" /\ ~e.admit

==========================================================================
